---------------------------- MODULE Spec2Model ----------------------------
(***************************************************************************)
(* Model of ConfigFileManager (src/bootstrap.py, lines 54-132): the        *)
(* line-oriented configuration-file patcher.                               *)
(*                                                                         *)
(* A text is a sequence of one-character strings; a document is a sequence *)
(* of texts (the list of lines Python's readlines/writelines work on).     *)
(* The file on storage is one text plus an "exists" flag.                  *)
(***************************************************************************)
EXTENDS Naturals, Integers, Sequences, FiniteSets, TLC

VARIABLES
    file,       \* the bytes of the file at the bound path
    exists,     \* os.path.exists(file_path)
    content,    \* content[p]: self.content of patcher p
    built,      \* built[p]: patcher p has been constructed
    nops,       \* number of operations called so far
    last,       \* record of the most recent operation call
    flush       \* record of the most recent call of _write_file

vars == <<file, exists, content, built, nops, last, flush>>

(***************************************************************************)
(* Bounds and input sets                                                   *)
(***************************************************************************)
\* The most lines the file holds before the first patcher is constructed.
MaxInitLines == 2

\* The most operations called in one behaviour.
MaxOps == 2

NL == "\n"
SP == " "

\* The patchers that may be bound to the one path.
Patchers == {1, 2}

\* after_line_prefix=None (the default of ensure_line_present).
NoAnchor == <<"None">>

\* Line texts the initial file is made of.
InitLineTexts == { <<SP, "a", "b">>, <<"b">> }

\* line_to_add values.
EnsureInputs == { <<"a">>, <<SP, "c", NL>>, <<"c", NL, "d">> }

\* after_line_prefix values.
AnchorInputs == { NoAnchor, <<>>, <<"a">> }

\* prefix and new_line values of replace_line_prefix.
PrefixInputs == { <<"a">>, <<>> }
NewLineInputs == { <<"a", "c">>, <<"b", NL>> }

\* new_content values of overwrite_file.
OverwriteInputs == { <<>>, <<"c", NL, NL, "a">> }

(***************************************************************************)
(* Python string primitives                                                *)
(***************************************************************************)
\* str.isspace for the characters of the model.
IsSpace(c) == c \in {SP, NL}

\* s.endswith('\n')
EndsWithNL(s) == Len(s) > 0 /\ s[Len(s)] = NL

\* s.startswith(p)
StartsWith(s, p) == Len(p) <= Len(s) /\ SubSeq(s, 1, Len(p)) = p

\* sub in s
Contains(s, sub) ==
    \E i \in 0..(Len(s) - Len(sub)) : SubSeq(s, i + 1, i + Len(sub)) = sub

\* s.lstrip()
RECURSIVE LStrip(_)
LStrip(s) == IF s # <<>> /\ IsSpace(Head(s)) THEN LStrip(Tail(s)) ELSE s

\* s.rstrip()
RECURSIVE RStrip(_)
RStrip(s) ==
    IF s # <<>> /\ IsSpace(s[Len(s)]) THEN RStrip(SubSeq(s, 1, Len(s) - 1)) ELSE s

\* s.strip()
Strip(s) == RStrip(LStrip(s))

\* Index of the first '\n' of s, or 0.
RECURSIVE FirstNL(_, _)
FirstNL(s, i) ==
    IF i > Len(s) THEN 0 ELSE IF s[i] = NL THEN i ELSE FirstNL(s, i + 1)

\* f.readlines(): the lines of a text, terminators kept.
RECURSIVE ReadLines(_)
ReadLines(t) ==
    IF t = <<>> THEN <<>>
    ELSE LET k == FirstNL(t, 1) IN
         IF k = 0 THEN <<t>>
         ELSE <<SubSeq(t, 1, k)>> \o ReadLines(SubSeq(t, k + 1, Len(t)))

\* f.writelines(lines): the concatenation of the elements.
RECURSIVE Concat(_)
Concat(lines) ==
    IF lines = <<>> THEN <<>> ELSE Head(lines) \o Concat(Tail(lines))

\* t.splitlines(): the lines of a text, terminators dropped.
RECURSIVE SplitLines(_)
SplitLines(t) ==
    IF t = <<>> THEN <<>>
    ELSE LET k == FirstNL(t, 1) IN
         IF k = 0 THEN <<t>>
         ELSE <<SubSeq(t, 1, k - 1)>> \o SplitLines(SubSeq(t, k + 1, Len(t)))

\* line + "\n" if not line.endswith('\n') else line
Terminated(s) == IF EndsWithNL(s) THEN s ELSE s \o <<NL>>


(***************************************************************************)
(* The three edits as functions on the in-memory document                  *)
(***************************************************************************)
\* `if after_line_prefix:` -- None and the empty string are both falsy.
AnchorGiven(after_line_prefix) ==
    after_line_prefix # NoAnchor /\ after_line_prefix # <<>>

\* The already-present test tightened to equality: some line's stripped
\* text is the stripped line_to_add.
AlreadyPresentExact(doc, line_to_add) ==
    \E i \in 1..Len(doc) : Strip(doc[i]) = Strip(line_to_add)

\* The loop of lines 84-87: some line's stripped text contains the stripped
\* line_to_add.
AlreadyPresent(doc, line_to_add) ==
    \E i \in 1..Len(doc) : Contains(Strip(doc[i]), Strip(line_to_add))

\* The anchor search without its `break`: the last matching line wins.
found_idx_last(doc, prefix, i) ==
    LET m == { j \in i..Len(doc) : StartsWith(Strip(doc[j]), prefix) }
    IN  IF m = {} THEN 0 ELSE CHOOSE j \in m : \A k \in m : k <= j

\* The loop of lines 90-94: position of the first line whose stripped text
\* starts with the prefix, 0 when there is none (found_idx = -1).
RECURSIVE found_idx(_, _, _)
found_idx(doc, prefix, i) ==
    IF i > Len(doc) THEN 0
    ELSE IF StartsWith(Strip(doc[i]), prefix) THEN i
    ELSE found_idx(doc, prefix, i + 1)

\* Lines 99-101, 103-105 and 121-123: the end-of-file append.
AppendAtEnd(doc, line) ==
    LET padded == IF doc = <<>> \/ ~EndsWithNL(doc[Len(doc)])
                  THEN Append(doc, <<NL>>)
                  ELSE doc
    IN  Append(padded, Terminated(line))

\* Line 97: self.content.insert(found_idx + 1, ...), idx being the position
\* (counted from 1) of the anchor line.
InsertAfter(doc, idx, line) ==
    SubSeq(doc, 1, idx) \o <<Terminated(line)>> \o SubSeq(doc, idx + 1, Len(doc))

\* Lines 89-105: the document ensure_line_present builds when the content
\* is not already present.
EnsureDoc(doc, line_to_add, after_line_prefix) ==
    IF AnchorGiven(after_line_prefix)
    THEN LET idx == found_idx(doc, after_line_prefix, 1) IN
         IF idx # 0 THEN InsertAfter(doc, idx, line_to_add)
         ELSE AppendAtEnd(doc, line_to_add)
    ELSE AppendAtEnd(doc, line_to_add)

\* Line 114: the line is one replace_line_prefix replaces.
MatchesPrefix(line, prefix) == StartsWith(Strip(line), prefix)

\* The replace loop stopping at its first match: later matching lines are
\* kept as they are.
ReplaceFirstMatch(doc, prefix, new_line) ==
    [i \in 1..Len(doc) |->
        IF i = found_idx(doc, prefix, 1) THEN Terminated(new_line) ELSE doc[i]]

\* Lines 111-118: the loop building new_content.
ReplaceMatches(doc, prefix, new_line) ==
    [i \in 1..Len(doc) |->
        IF MatchesPrefix(doc[i], prefix) THEN Terminated(new_line) ELSE doc[i]]

\* Lines 111-125: the document replace_line_prefix builds.
ReplaceDoc(doc, prefix, new_line) ==
    IF \E i \in 1..Len(doc) : MatchesPrefix(doc[i], prefix)
    THEN ReplaceMatches(doc, prefix, new_line)
    ELSE AppendAtEnd(doc, new_line)

\* The overwrite keeping the lines as splitlines() returns them, without
\* re-terminating them.
OverwriteDocUnterminated(new_content) == SplitLines(new_content)

\* Line 130: the document overwrite_file builds.
OverwriteDoc(new_content) ==
    LET ls == SplitLines(new_content) IN [i \in 1..Len(ls) |-> Terminated(ls[i])]

(***************************************************************************)
(* Storage                                                                 *)
(***************************************************************************)
\* _read_file: the lines of the file, or [] when the path does not exist.
read_file(f, e) == IF e THEN ReadLines(f) ELSE <<>>

\* What storage can do with the write of a text (lines 72-73), as the number
\* k of characters that reach the file: k = Len(text) is the write that
\* succeeds; k = -1 is open() raising, the file left as it was; k = 0 is
\* open() truncating the file and the write raising before any character
\* reached storage (which also stands for the half-written file).
WriteOutcomes(text) == {-1, 0, Len(text)}

\* The whole text reached the file: no exception inside the try block.
Flushed(text, k) == k = Len(text)

\* A _write_file whose except clause reports success.
WriteFileReturnsTrue(flushed) == TRUE

\* The return value of _write_file: True at the end of the try block (line
\* 75), False from the except clause (line 78).
WriteFileReturns(flushed) == flushed

\* _write_file lets an exception out: never, `except Exception` (line 76)
\* catches whatever open() and writelines() raise.
WriteFileRaises(flushed) == FALSE

\* The file after a _write_file that opens the path in append mode: what
\* is written follows what the file held.
FileAfterAppend(f, text, k) == IF k = -1 THEN f ELSE f \o SubSeq(text, 1, k)

\* The file after _write_file with outcome k.
FileAfterWrite(f, text, k) == IF k = -1 THEN f ELSE SubSeq(text, 1, k)

\* os.path.exists after _write_file with outcome k.
ExistsAfterWrite(e, k) == IF k = -1 THEN e ELSE TRUE

(***************************************************************************)
(* Initial state                                                           *)
(***************************************************************************)
\* The texts a file of at most MaxInitLines lines can hold: every line ends
\* with a terminator, except that the last one may lack it.
InitFiles ==
    LET docs == UNION { [1..n -> InitLineTexts] : n \in 0..MaxInitLines }
        full(d) == Concat([i \in 1..Len(d) |-> d[i] \o <<NL>>])
    IN  { full(d) : d \in docs }
        \cup { SubSeq(full(d), 1, Len(full(d)) - 1) : d \in docs \ {<<>>} }

\* The record of "no operation called yet".
NoCall ==
    [op |-> "none", p |-> 0, arg |-> <<>>, aux |-> <<>>,
     preFile |-> <<>>, preExists |-> FALSE, preContent |-> <<>>,
     doc |-> <<>>, fresh |-> FALSE, wrote |-> FALSE, ok |-> FALSE, ret |-> FALSE,
     raised |-> FALSE, again |-> FALSE, prevFresh |-> FALSE]

\* The record of "_write_file not called yet".
NoFlush == [p |-> 0, doc |-> <<>>, ok |-> FALSE, prevP |-> 0, prevOk |-> FALSE]

Init ==
    /\ exists \in BOOLEAN
    /\ file \in (IF exists THEN InitFiles ELSE {<<>>})
    /\ content = [p \in Patchers |-> <<>>]
    /\ built = [p \in Patchers |-> FALSE]
    /\ nops = 0
    /\ last = NoCall
    /\ flush = NoFlush

(***************************************************************************)
(* Operations                                                              *)
(***************************************************************************)
\* The record of a call by patcher p: what it was called with (arg is the
\* line or text, aux the anchor or prefix), the state it started from,
\* the document the patcher holds when it returns (doc), whether the
\* patcher held the lines of the file as it is, as one just constructed
\* does (fresh),
\* whether it flushed (wrote), whether the flush reached storage (ok), what
\* it returned (ret), whether an exception left it (raised), whether the
\* call before it was the same call and returned True (again) and whether
\* that call ran on a fresh patcher (prevFresh).
Call(p, op, arg, aux, doc, wrote, ok, ret, raised) ==
    [op |-> op, p |-> p, arg |-> arg, aux |-> aux,
     preFile |-> file, preExists |-> exists, preContent |-> content[p],
     doc |-> doc,
     fresh |-> (content[p] = read_file(file, exists)),
     wrote |-> wrote, ok |-> ok, ret |-> ret, raised |-> raised,
     again |-> (last.op = op /\ last.arg = arg /\ last.aux = aux /\ last.ret),
     prevFresh |-> last.fresh]

\* ConfigFileManager(file_path): __init__ reads the file once.
Construct(p) ==
    /\ content' = [content EXCEPT ![p] = read_file(file, exists)]
    /\ built' = [built EXCEPT ![p] = TRUE]
    /\ UNCHANGED <<file, exists, nops, last, flush>>

\* self.content = doc; return self._write_file(self.content), the write
\* ending with outcome k.  flush records whose document was written,
\* whether the whole of it reached the file, and the same of the write
\* before it (prevP, prevOk).
write_file(p, op, arg, aux, doc, k) ==
    /\ content' = [content EXCEPT ![p] = doc]
    /\ file' = FileAfterWrite(file, Concat(doc), k)
    /\ exists' = ExistsAfterWrite(exists, k)
    /\ last' = Call(p, op, arg, aux, doc, TRUE, Flushed(Concat(doc), k),
                    WriteFileReturns(Flushed(Concat(doc), k)),
                    WriteFileRaises(Flushed(Concat(doc), k)))
    /\ flush' = [p |-> p, doc |-> doc, ok |-> Flushed(Concat(doc), k),
                 prevP |-> flush.p, prevOk |-> flush.ok]

\* ensure_line_present(line_to_add, after_line_prefix)
ensure_line_present(p, line_to_add, after_line_prefix) ==
    /\ built[p]
    /\ nops < MaxOps
    /\ nops' = nops + 1
    /\ UNCHANGED built
    /\ IF AlreadyPresent(content[p], line_to_add)
       THEN /\ last' = Call(p, "ensure", line_to_add, after_line_prefix,
                            content[p], FALSE, FALSE, TRUE, FALSE)
            /\ UNCHANGED <<file, exists, content, flush>>
       ELSE LET doc == EnsureDoc(content[p], line_to_add, after_line_prefix)
            IN  \E k \in WriteOutcomes(Concat(doc)) :
                    write_file(p, "ensure", line_to_add, after_line_prefix,
                               doc, k)

\* replace_line_prefix(prefix, new_line)
replace_line_prefix(p, prefix, new_line) ==
    /\ built[p]
    /\ nops < MaxOps
    /\ nops' = nops + 1
    /\ UNCHANGED built
    /\ LET doc == ReplaceDoc(content[p], prefix, new_line)
       IN  \E k \in WriteOutcomes(Concat(doc)) :
               write_file(p, "replace", new_line, prefix, doc, k)

\* overwrite_file(new_content)
overwrite_file(p, new_content) ==
    /\ built[p]
    /\ nops < MaxOps
    /\ nops' = nops + 1
    /\ UNCHANGED built
    /\ \E k \in WriteOutcomes(Concat(OverwriteDoc(new_content))) :
           write_file(p, "overwrite", new_content, <<>>,
                      OverwriteDoc(new_content), k)

\* One caller: a single patcher at a time is bound to the path.
Next ==
    \/ Construct(1)
    \/ \E s \in EnsureInputs, a \in AnchorInputs : ensure_line_present(1, s, a)
    \/ \E x \in PrefixInputs, n \in NewLineInputs : replace_line_prefix(1, x, n)
    \/ \E t \in OverwriteInputs : overwrite_file(1, t)

Spec == Init /\ [][Next]_vars

\* The calls two patchers bound to the same path make.
SharedEnsureInputs == { <<"a">>, <<SP, "c", NL>> }
SharedAnchorInputs == { NoAnchor }
SharedPrefixInputs == { <<"a">> }
SharedNewLineInputs == { <<"a", "c">> }
SharedOverwriteInputs == { <<"c", NL, NL, "a">> }

\* Two callers: each constructs its own patcher on the one path and calls
\* its operations, in any interleaving of whole calls.
NextShared ==
    \E p \in Patchers :
        \/ Construct(p)
        \/ \E s \in SharedEnsureInputs, a \in SharedAnchorInputs :
               ensure_line_present(p, s, a)
        \/ \E x \in SharedPrefixInputs, n \in SharedNewLineInputs :
               replace_line_prefix(p, x, n)
        \/ \E t \in SharedOverwriteInputs : overwrite_file(p, t)

SpecShared == Init /\ [][NextShared]_vars

(***************************************************************************)
(* Vocabulary of the properties                                            *)
(***************************************************************************)
\* The document the patcher of the last call held when the call returned,
\* and the one it held when the call started.
Doc == last.doc
Pre == last.preContent

\* The line's trimmed text starts with the prefix.
TrimmedStartsWith(line, prefix) ==
    LET t == Strip(line) IN
    Len(prefix) <= Len(t) /\ \A j \in 1..Len(prefix) : t[j] = prefix[j]

\* The positions of the lines of a document whose trimmed text starts with
\* the prefix.
Matching(doc, prefix) ==
    { i \in 1..Len(doc) : TrimmedStartsWith(doc[i], prefix) }

\* The lowest position of a set of positions.
Lowest(S) == CHOOSE i \in S : \A j \in S : i <= j

\* The text as one line: itself when it ends with a terminator, else with
\* one added.
AsLine(t) == IF t # <<>> /\ t[Len(t)] = NL THEN t ELSE t \o <<NL>>

\* The number of terminators in a text.
Terminators(t) == Cardinality({ i \in 1..Len(t) : t[i] = NL })

\* The last call appended at the end of the document: ensure_line_present
\* with the content absent and no anchor given or no line matching it, or
\* replace_line_prefix with no line matching the prefix.
AppendedAtEnd ==
    \/ /\ last.op = "ensure"
       /\ last.wrote
       /\ (last.aux = NoAnchor \/ Matching(Pre, last.aux) = {})
    \/ /\ last.op = "replace"
       /\ Matching(Pre, last.aux) = {}

\* The last call inserted after an anchor line.
InsertedAfterAnchor ==
    /\ last.op = "ensure"
    /\ last.wrote
    /\ last.aux # NoAnchor
    /\ last.aux # <<>>
    /\ Matching(Pre, last.aux) # {}

(***************************************************************************)
(* C1                                                                      *)
(***************************************************************************)
\* C1: idempotence of ensure_line_present.  When ensure_line_present(S) has
\* run on a patcher loaded from the file and then runs again, with the same
\* S, on a patcher freshly loaded from the resulting file, the second run
\* leaves the file as the first run left it.
C1_EnsureIdempotent ==
    (/\ last.op = "ensure"
     /\ last.aux = NoAnchor
     /\ last.again /\ last.prevFresh
     /\ last.fresh
     /\ last.ret)
    => (file = last.preFile /\ exists = last.preExists)

(***************************************************************************)
(* C2                                                                      *)
(***************************************************************************)
\* C2: terminator safety.  Whenever ensure_line_present or
\* replace_line_prefix adds a new line (appended at the end, or inserted
\* after an anchor line) and the write succeeds, the added text starts on a
\* line of its own in the file: at offset 0 or right after a terminator.
C2_TerminatorSafety ==
    (last.ok /\ (AppendedAtEnd \/ InsertedAfterAnchor))
    => LET added == AsLine(last.arg)
           o == IF InsertedAfterAnchor
                THEN Len(Concat(SubSeq(Pre, 1, Lowest(Matching(Pre, last.aux)))))
                ELSE Len(file) - Len(added)
       IN  /\ SubSeq(file, o + 1, o + Len(added)) = added
           /\ (o = 0 \/ file[o] = NL)

(***************************************************************************)
(* C3                                                                      *)
(***************************************************************************)
\* C3: broadcast replace.  When at least one line's trimmed text starts
\* with the prefix, replace_line_prefix yields a document of the same
\* length in which every such line is new_line with a terminator and every
\* other line is unchanged at its index.
C3_BroadcastReplace ==
    (last.op = "replace" /\ Matching(Pre, last.aux) # {})
    => /\ Len(Doc) = Len(Pre)
       /\ \A i \in 1..Len(Pre) :
              IF i \in Matching(Pre, last.aux)
              THEN Doc[i] = AsLine(last.arg)
              ELSE Doc[i] = Pre[i]

\* C3 witness: a replace that found two matching lines and a line that
\* does not match, and wrote the result.
C3_Witness ==
    /\ last.op = "replace"
    /\ last.ok
    /\ Cardinality(Matching(Pre, last.aux)) >= 2
    /\ Cardinality(Matching(Pre, last.aux)) < Len(Pre)

(***************************************************************************)
(* C4                                                                      *)
(***************************************************************************)
\* The document with the text placed as one new line right after position
\* i, every original line kept in its order.
PlacedAfter(doc, i, t) ==
    /\ Len(Doc) = Len(doc) + 1
    /\ Doc[i + 1] = AsLine(t)
    /\ \A j \in 1..Len(doc) : Doc[IF j <= i THEN j ELSE j + 1] = doc[j]

\* The document with the text placed as its last line, every original line
\* kept in its order before it.
PlacedAtEnd(doc, t) ==
    /\ Len(Doc) > Len(doc)
    /\ Doc[Len(Doc)] = AsLine(t)
    /\ SubSeq(Doc, 1, Len(doc)) = doc

\* C4 as claimed: anchor placement.  When the content is absent and an
\* anchor prefix is given, ensure_line_present inserts the content as one
\* new line right after the lowest line whose trimmed text starts with the
\* anchor prefix, the original lines keeping their order; when no line
\* matches, the content is placed at the end.
C4_AnchorPlacement_Claimed ==
    (last.op = "ensure" /\ last.wrote /\ last.aux # NoAnchor)
    => IF Matching(Pre, last.aux) # {}
       THEN PlacedAfter(Pre, Lowest(Matching(Pre, last.aux)), last.arg)
       ELSE PlacedAtEnd(Pre, last.arg)

\* C4: anchor placement, for an anchor prefix that is given and is not the
\* empty string.  When the content is absent, ensure_line_present inserts
\* the content as one new line right after the lowest line whose trimmed
\* text starts with the anchor prefix, the original lines keeping their
\* order; when no line matches, the content is placed at the end.  (An
\* empty anchor prefix is treated as no anchor: the content goes to the
\* end.)
C4_AnchorPlacement ==
    (last.op = "ensure" /\ last.wrote /\ last.aux # NoAnchor)
    => IF last.aux # <<>> /\ Matching(Pre, last.aux) # {}
       THEN PlacedAfter(Pre, Lowest(Matching(Pre, last.aux)), last.arg)
       ELSE PlacedAtEnd(Pre, last.arg)

\* C4 witness: an insertion after the first of two lines matching the
\* anchor, with a line after the inserted one.
C4_Witness ==
    /\ last.op = "ensure"
    /\ last.wrote
    /\ last.ok
    /\ last.aux # NoAnchor
    /\ last.aux # <<>>
    /\ Cardinality(Matching(Pre, last.aux)) >= 2
    /\ Doc[Lowest(Matching(Pre, last.aux)) + 1] = AsLine(last.arg)
    /\ Len(Doc) > Lowest(Matching(Pre, last.aux)) + 1

(***************************************************************************)
(* C5                                                                      *)
(***************************************************************************)
\* The text between terminators: the lines of a text, terminators dropped
\* (an unterminated tail counts as a line).
LinesOf(t) ==
    LET ends == { i \in 1..Len(t) : t[i] = NL } \cup
                (IF t # <<>> /\ t[Len(t)] # NL THEN {Len(t) + 1} ELSE {})
        start(e) == IF \E i \in ends : i < e
                    THEN 1 + CHOOSE i \in ends :
                                 i < e /\ \A j \in ends : j < e => j <= i
                    ELSE 1
        nth(n) == CHOOSE e \in ends : Cardinality({ i \in ends : i <= e }) = n
    IN  [n \in 1..Cardinality(ends) |-> SubSeq(t, start(nth(n)), nth(n) - 1)]

\* C5: overwrite totality.  Whatever the prior document, overwrite_file(T)
\* makes the document exactly the lines of T, each ending in exactly one
\* terminator; it always writes, and a write that succeeds leaves the file
\* holding exactly those lines.
C5_OverwriteTotality ==
    (last.op = "overwrite")
    => /\ Len(Doc) = Len(LinesOf(last.arg))
       /\ \A i \in 1..Len(Doc) :
              /\ Doc[i] = LinesOf(last.arg)[i] \o <<NL>>
              /\ Terminators(Doc[i]) = 1
       /\ last.wrote
       /\ last.ok => (exists /\ file = Concat(Doc))

\* C5 witness: an overwrite with a text of several lines, on a patcher that
\* holds the lines of an earlier operation, none of which survives.
C5_Witness ==
    /\ last.op = "overwrite"
    /\ last.ok
    /\ nops = 2
    /\ Pre # <<>>
    /\ Len(Doc) >= 2
    /\ \A i \in 1..Len(Pre) : \A j \in 1..Len(Doc) : Pre[i] # Doc[j]

(***************************************************************************)
(* C6                                                                      *)
(***************************************************************************)
\* C6: persisted-terminator invariant.  Every file an operation wrote is
\* either zero bytes or has every line, its last included, ending in a
\* terminator.
C6_PersistedTerminated ==
    (last.wrote /\ last.ok)
    => \/ file = <<>>
       \/ \A i \in 1..Len(ReadLines(file)) : EndsWithNL(ReadLines(file)[i])

(***************************************************************************)
(* C7                                                                      *)
(***************************************************************************)
\* C7: round trip.  After an operation whose write succeeded, reloading the
\* file yields the same sequence of line elements as the document the
\* patcher holds.
C7_RoundTrip ==
    (last.wrote /\ last.ok) => read_file(file, exists) = Doc

(***************************************************************************)
(* C8                                                                      *)
(***************************************************************************)
\* C8: append adds exactly one line.  When ensure_line_present or
\* replace_line_prefix appends to a document that is empty or whose last
\* line ends with a terminator, the resulting document is the prior
\* document followed by the one terminator-normalized new line.
C8_AppendExactlyOne ==
    (AppendedAtEnd /\ (Pre = <<>> \/ EndsWithNL(Pre[Len(Pre)])))
    => Doc = Append(Pre, AsLine(last.arg))

(***************************************************************************)
(* C9                                                                      *)
(***************************************************************************)
\* C9: idempotence of replace_line_prefix.  When replace_line_prefix(P, N)
\* runs right after the same call succeeded, it leaves the document and
\* the file as that call left them.
C9_ReplaceIdempotent ==
    (last.op = "replace" /\ last.again /\ last.ok)
    => (Doc = Pre /\ file = last.preFile)

(***************************************************************************)
(* C10                                                                     *)
(***************************************************************************)
\* C10: write-failure reporting.  Whenever an operation flushes, no
\* exception leaves it and it returns True exactly when the flush reached
\* storage: False when the flush failed.
C10_WriteFailureReported ==
    last.wrote => (~last.raised /\ (last.ret <=> last.ok))

\* C10 witness: a flush that failed after truncating the file, reported by
\* a False return.
C10_Witness ==
    /\ last.wrote
    /\ ~last.ok
    /\ ~last.ret
    /\ file # last.preFile

(***************************************************************************)
(* C11                                                                     *)
(***************************************************************************)
\* The trimmed text occurs somewhere inside the trimmed line.
TrimmedContains(line, t) ==
    LET l == Strip(line)
        s == Strip(t)
    IN  \E o \in 0..(Len(l) - Len(s)) : \A j \in 1..Len(s) : l[o + j] = s[j]

\* C11: already-present no-op.  When some line's trimmed text contains the
\* trimmed content, ensure_line_present, with or without an anchor prefix,
\* leaves the document as it was, does not write (the file is as it was)
\* and returns True.
C11_AlreadyPresentNoOp ==
    (/\ last.op = "ensure"
     /\ \E i \in 1..Len(Pre) : TrimmedContains(Pre[i], last.arg))
    => /\ Doc = Pre
       /\ ~last.wrote
       /\ file = last.preFile
       /\ exists = last.preExists
       /\ last.ret

\* C11 witness: an ensure_line_present with an anchor prefix whose content
\* occurs inside a longer line and is no line's whole trimmed text.
C11_Witness ==
    /\ last.op = "ensure"
    /\ last.aux # NoAnchor
    /\ last.aux # <<>>
    /\ \E i \in 1..Len(Pre) : TrimmedContains(Pre[i], last.arg)
    /\ \A i \in 1..Len(Pre) : Strip(Pre[i]) # Strip(last.arg)
    /\ Matching(Pre, last.aux) # {}
    /\ last.ret
    /\ file # <<>>

(***************************************************************************)
(* C12                                                                     *)
(***************************************************************************)
\* The lines of a document, as a set.
LineSet(doc) == { doc[i] : i \in 1..Len(doc) }

\* C12: last write wins on a shared path.  With two patchers bound to the
\* path, whenever the most recent flush reached storage the file is
\* exactly the document of the patcher that flushed, whatever the other
\* patcher flushed before.
C12_LastWriteWins ==
    (flush.p # 0 /\ flush.ok) => (exists /\ file = Concat(flush.doc))

\* C12 witness: patcher 1 flushed, then patcher 2 flushed the snapshot it
\* had read before patcher 1's flush; both operations are complete and a
\* line patcher 1 had put in the file is in the file no more.
C12_Witness ==
    /\ nops = 2
    /\ flush.p = 2 /\ flush.ok
    /\ flush.prevP = 1 /\ flush.prevOk
    /\ last.p = 2 /\ last.wrote
    /\ ~last.fresh
    /\ file = Concat(content[2])
    /\ \E l \in LineSet(read_file(last.preFile, last.preExists)) :
           /\ l \notin LineSet(Pre)
           /\ l \notin LineSet(read_file(file, exists))

(***************************************************************************)
(* C13                                                                     *)
(***************************************************************************)
\* C13: success implies persisted.  On one patcher, with writes that may
\* fail and no other writer, whenever ensure_line_present(S) returns True
\* the file on storage has a line whose trimmed text contains the trimmed
\* S.
C13_SuccessImpliesPersisted ==
    (last.op = "ensure" /\ last.ret)
    => \E l \in LineSet(read_file(file, exists)) : TrimmedContains(l, last.arg)

=============================================================================
